---- MODULE Spec2Model ----
(***************************************************************************)
(* Model of webconv/www/main.js of desynced-exchange: the StateMaintainer  *)
(* state machine (switchState with its lock and rollback), the two panes   *)
(* built by setupState, the configuration readers and the decode / encode  *)
(* conversion actions.                                                     *)
(*                                                                         *)
(* Two specifications share the variables:                                 *)
(*   Spec    the wired application of main(): the four event handlers,     *)
(*           the user's edits and radio selections, the codec's replies;   *)
(*   SpecSM  a StateMaintainer driven by an arbitrary caller: any state    *)
(*           names as arguments, actions that succeed or fail, calls made  *)
(*           while a transition is in flight, hooks that may throw.        *)
(***************************************************************************)
EXTENDS Naturals, Sequences, FiniteSets

VARIABLES
    state,      \* StateMaintainer.state: a state name or Null (locked)
    flights,    \* the transitions in flight, and the one completed last until
                \* the next accepted call or user input: one record per call
    last,       \* the guard's answer to the latest switchState call (forgotten
                \* at the next user input); tick flips at every call
    dom,        \* the document: hidden flags, textarea values, error surfaces, radios
    pcMain,     \* where main() stands: "new", "built", "enter", then "ready"
    read        \* what the latest call of a configuration reader gave

\* the variables the state machine and the handlers never touch
aux == <<pcMain, read>>

vars == <<state, flights, last, dom, pcMain, read>>

-----------------------------------------------------------------------------
(* Bounds *)

\* longest text a textarea holds or the codec returns
MaxLen == 2

\* most transitions the model lets be in flight at once (the code allows one)
MaxFlights == 2

-----------------------------------------------------------------------------
(* Values *)

\* the JavaScript value null, distinct from every state name
Null == "<null>"

\* the JavaScript value undefined: the field state before the constructor sets it
Undef == "<undefined>"

\* the keys of the states mapping built by main()
Names == {"encoded", "decoded"}

\* a name every object inherits from Object.prototype: this.states[name] is
\* defined for it although it is no key of the mapping
ProtoNames == {"toString"}

\* what a caller may pass as oldState / newState
ArgNames == Names \cup ProtoNames \cup {"bogus", Null}

Chars == {" ", "x"}

RECURSIVE SeqsUpTo(_)
SeqsUpTo(n) ==
    IF n = 0 THEN {<<>>}
    ELSE LET shorter == SeqsUpTo(n - 1)
         IN  shorter \cup {Append(s, c) : s \in shorter, c \in Chars}

Texts == SeqsUpTo(MaxLen)

\* ActionResult values: undefined, {} and {value: v}
Undefined == [kind |-> "undefined", has |-> FALSE, value |-> <<>>]
EmptyResult == [kind |-> "object", has |-> FALSE, value |-> <<>>]
ValueResult(v) == [kind |-> "object", has |-> TRUE, value |-> v]
NoResult == [kind |-> "none", has |-> FALSE, value |-> <<>>]

\* the codec was not called / has not replied
NoRequest == [fn |-> "none"]
NoReply == [ok |-> FALSE, text |-> <<>>, called |-> FALSE]

\* the error messages of the program
ErrNull == "Valid state cannot be null"
ErrUndefinedState == "Undefined state"
ErrOutOfOrder == "Out-of-order action"
ErrUnreachable == "unreachable"
ErrType == "TypeError"
ErrCodec == "codec error"
ErrAction == "action error"
ErrHook == "hook error"

-----------------------------------------------------------------------------
(* String.prototype.trim on the model's texts *)

IsSpace(c) == c = " "

RECURSIVE TrimLeft(_)
TrimLeft(s) ==
    IF s # <<>> /\ IsSpace(Head(s)) THEN TrimLeft(Tail(s)) ELSE s

RECURSIVE TrimRight(_)
TrimRight(s) ==
    IF s # <<>> /\ IsSpace(s[Len(s)]) THEN TrimRight(SubSeq(s, 1, Len(s) - 1)) ELSE s

Trim(s) == TrimRight(TrimLeft(s))

-----------------------------------------------------------------------------
(* StateMaintainer *)

\* this.states[name] !== undefined
HasState(name) == name \in Names \cup ProtoNames

CheckStateNullPasses(name) ==
    IF name # Null /\ ~HasState(name) THEN ErrUndefinedState ELSE ""

\* _checkState: the message it throws, "" when it returns
CheckState(name) ==
    IF name = Null THEN ErrNull
    ELSE IF ~HasState(name) THEN ErrUndefinedState
    ELSE ""

VerdictNoOrderCheck(cur, oldState, newState) ==
    IF CheckState(oldState) # "" THEN CheckState(oldState)
    ELSE IF CheckState(newState) # "" THEN CheckState(newState)
    ELSE "accepted"

VerdictAgainstNew(cur, oldState, newState) ==
    IF CheckState(oldState) # "" THEN CheckState(oldState)
    ELSE IF CheckState(newState) # "" THEN CheckState(newState)
    ELSE IF cur # newState THEN ErrOutOfOrder
    ELSE "accepted"

\* the guard of switchState: the message it throws, or "accepted"
Verdict(cur, oldState, newState) ==
    IF CheckState(oldState) # "" THEN CheckState(oldState)
    ELSE IF CheckState(newState) # "" THEN CheckState(newState)
    ELSE IF cur # oldState THEN ErrOutOfOrder
    ELSE "accepted"

LockedStateKept(oldState) == oldState

\* this.state = null
LockedState(oldState) == Null

CaughtStateNew(f) == f.new

CaughtStateLocked(f) == Null

\* catch (error) { this.state = oldState; ... }
CaughtState(f) == f.old

SettledStateLocked(f) == Null

\* this.state = newState
SettledState(f) == f.new

\* the argument of this.states[newState].enter.call(this, result)
EnterArg(f) == f.result

ExitNameNew(f) == f.new

\* the state whose exit hook is called: this.states[oldState].exit
ExitName(f) == f.old

\* this.states[name].exit / .enter is a function
HookDefined(name) == name \in Names

InFlight(f) == f.pc \in {"action", "exit", "enter"}

Pending(fs) == SelectSeq(fs, InFlight)

\* no switchState continuation is pending. The actions main() wires are
\* synchronous, so what follows await runs as a microtask, before the event
\* loop dispatches the next user event: handlers and user inputs run when Idle
Idle == \A i \in DOMAIN flights : ~InFlight(flights[i])

NewFlight(act, oldState, newState) ==
    [old |-> oldState, new |-> newState, act |-> act, pc |-> "action",
     result |-> NoResult, error |-> "", hooks |-> <<>>, ret |-> NoResult,
     req |-> NoRequest, reply |-> NoReply]

\* switchState up to and including this.state = null: the call is answered by
\* the guard, and an accepted call becomes a flight whose action is invoked
SwitchStateCall(act, oldState, newState) ==
    LET v == Verdict(state, oldState, newState) IN
    /\ last' = [old |-> oldState, new |-> newState, act |-> act, pre |-> state,
                verdict |-> v, tick |-> 1 - last.tick]
    /\ IF v = "accepted"
       THEN /\ Len(Pending(flights)) < MaxFlights
            /\ state' = LockedState(oldState)
            /\ flights' = Append(Pending(flights), NewFlight(act, oldState, newState))
       ELSE UNCHANGED <<state, flights>>

\* the catch block of switchState for flight i
Catch(i, err) ==
    /\ state' = CaughtState(flights[i])
    /\ flights' = [flights EXCEPT ![i].pc = "rejected", ![i].error = err]

\* result = await action(): the action of flight i has settled with outcome;
\* on success the exit hook of the old state is called
ActionSettle(i, outcome) ==
    /\ flights[i].pc = "action"
    /\ IF outcome.ok
       THEN IF HookDefined(ExitName(flights[i]))
            THEN /\ flights' = [flights EXCEPT
                        ![i].pc = "exit",
                        ![i].result = outcome.result,
                        ![i].req = outcome.req,
                        ![i].reply = outcome.reply,
                        ![i].hooks = Append(@, [hook |-> "exit",
                                                name |-> ExitName(flights[i]),
                                                arg |-> NoResult])]
                 /\ UNCHANGED state
            ELSE /\ state' = CaughtState(flights[i])
                 /\ flights' = [flights EXCEPT
                        ![i].pc = "rejected", ![i].error = ErrType,
                        ![i].result = outcome.result, ![i].req = outcome.req,
                        ![i].reply = outcome.reply]
       ELSE /\ state' = CaughtState(flights[i])
            /\ flights' = [flights EXCEPT
                   ![i].pc = "rejected", ![i].error = outcome.error,
                   ![i].req = outcome.req, ![i].reply = outcome.reply]
    /\ UNCHANGED last

\* the exit hook of flight i returns or throws (the hooks are arguments of the
\* constructor: threw is the caller's choice); when it returns the enter hook
\* of the new state is called with the action's result
ExitReturn(i, threw) ==
    /\ flights[i].pc = "exit"
    /\ IF threw
       THEN Catch(i, ErrHook)
       ELSE IF HookDefined(flights[i].new)
            THEN /\ flights' = [flights EXCEPT
                        ![i].pc = "enter",
                        ![i].hooks = Append(@, [hook |-> "enter",
                                                name |-> flights[i].new,
                                                arg |-> EnterArg(flights[i])])]
                 /\ UNCHANGED state
            ELSE Catch(i, ErrType)
    /\ UNCHANGED last

\* the enter hook of flight i returns or throws; when it returns the state is
\* advanced and the call resolves to the result
EnterReturn(i, threw) ==
    /\ flights[i].pc = "enter"
    /\ IF threw
       THEN Catch(i, ErrHook)
       ELSE /\ state' = SettledState(flights[i])
            /\ flights' = [flights EXCEPT ![i].pc = "resolved",
                                          ![i].ret = flights[i].result]
    /\ UNCHANGED last

-----------------------------------------------------------------------------
(* The document *)

Groups == {"decode_format", "decode_style", "inter_repr"}

\* the radio inputs of index.html, by group
RadioValues ==
    [g \in Groups |->
        CASE g = "decode_format" -> {"ron", "json"}
          [] g = "decode_style" -> {"pretty", "compact"}
          [] g = "inter_repr" -> {"struct", "map_tree"}]

\* index.html as parsed: every data-show_state element hidden, the textareas
\* and error surfaces empty, the first radio of each group checked
HtmlDom ==
    [hidden |-> [n \in Names |-> TRUE],
     contents |-> [n \in Names |-> <<>>],
     error |-> [n \in Names |-> ""],
     checked |-> [g \in Groups |->
        CASE g = "decode_format" -> {"ron"}
          [] g = "decode_style" -> {"pretty"}
          [] g = "inter_repr" -> {"struct"}]]

\* enter({value}) throws when its argument is undefined (destructuring)
EnterThrows(result) == result.kind = "undefined"

EnterKeepsError(d, name, result) ==
    [d EXCEPT !.contents[name] = IF result.has THEN result.value ELSE @,
              !.hidden[name] = FALSE]

\* the enter hook built by setupState(side) for side.name = name
Enter(d, name, result) ==
    [d EXCEPT !.error[name] = "",
              !.contents[name] = IF result.has THEN result.value ELSE @,
              !.hidden[name] = FALSE]

ExitNoHide(d, name) == d

ExitClears(d, name) == [d EXCEPT !.hidden[name] = TRUE, !.contents[name] = <<>>]

\* the exit hook built by setupState(side) for side.name = name
Exit(d, name) == [d EXCEPT !.hidden[name] = TRUE]

ShowErrorOnBoth(d, name, err) == [d EXCEPT !.error = [n \in Names |-> err]]

\* errors.innerHTML = error
ShowError(d, name, err) == [d EXCEPT !.error[name] = err]

-----------------------------------------------------------------------------
(* Configuration readers: [ok, value]; ok = FALSE when the reader throws *)

Thrown == [ok |-> FALSE, value |-> ""]

GetInputValueAny(d, name) ==
    IF d.checked[name] = {}
    THEN Thrown
    ELSE [ok |-> TRUE, value |-> CHOOSE v \in d.checked[name] : TRUE]

GetInputValue(d, name) ==
    IF Cardinality(d.checked[name]) # 1
    THEN Thrown
    ELSE [ok |-> TRUE, value |-> CHOOSE v \in d.checked[name] : TRUE]

GetDecodeFormat(d) ==
    LET r == GetInputValue(d, "decode_format") IN
    IF r.ok /\ ~(r.value = "ron" \/ r.value = "json") THEN Thrown ELSE r

GetDecodeStyle(d) ==
    LET r == GetInputValue(d, "decode_style") IN
    IF r.ok /\ ~(r.value = "pretty" \/ r.value = "compact") THEN Thrown ELSE r

GetInterReprUnchecked(d) == GetInputValue(d, "inter_repr")

GetInterRepr(d) ==
    LET r == GetInputValue(d, "inter_repr") IN
    IF r.ok /\ ~(r.value = "struct" \/ r.value = "map_tree") THEN Thrown ELSE r

-----------------------------------------------------------------------------
(* Conversion actions *)

\* what desynced_lib.decode / encode may answer: a text, or a thrown error
CodecReplies ==
    {[ok |-> TRUE, text |-> t, called |-> TRUE] : t \in Texts}
        \cup {[ok |-> FALSE, text |-> <<>>, called |-> TRUE]}

\* the pane an action reads, which is also where it shows its error
SourcePaneSwapped(act) == IF act = "decode" THEN "decoded" ELSE "encoded"

SourcePane(act) == IF act = "decode" THEN "encoded" ELSE "decoded"

SourceTextRaw(d, act) == d.contents[SourcePane(act)]

\* contents.value.trim()
SourceText(d, act) == Trim(d.contents[SourcePane(act)])

Failed(err, req, reply) ==
    [ok |-> FALSE, result |-> NoResult, error |-> err, req |-> req, reply |-> reply]

Succeeded(result, req, reply) ==
    [ok |-> TRUE, result |-> result, error |-> "", req |-> req, reply |-> reply]

DecodeConfigAtStartup(d) ==
    [decodeFormat |-> GetDecodeFormat(HtmlDom).value,
     decodeStyle |-> GetDecodeStyle(HtmlDom).value,
     interRepr |-> GetInterRepr(HtmlDom).value]

\* the configuration object decode() passes to the codec
DecodeConfig(d) ==
    [decodeFormat |-> GetDecodeFormat(d).value,
     decodeStyle |-> GetDecodeStyle(d).value,
     interRepr |-> GetInterRepr(d).value]

\* the configuration object encode() passes to the codec
EncodeConfig(d) ==
    [decodeFormat |-> GetDecodeFormat(d).value, interRepr |-> GetInterRepr(d).value]

\* the body of the action decode() hands to switchState, given the codec's reply
DecodeAction(d, reply) ==
    IF ~GetDecodeFormat(d).ok \/ ~GetDecodeStyle(d).ok \/ ~GetInterRepr(d).ok
    THEN Failed(ErrUnreachable, NoRequest, NoReply)
    ELSE LET req == [fn |-> "decode", text |-> SourceText(d, "decode"),
                     cfg |-> DecodeConfig(d)]
         IN  IF reply.ok
             THEN Succeeded(ValueResult(reply.text), req, reply)
             ELSE Failed(ErrCodec, req, reply)

\* the body of the action encode() hands to switchState, given the codec's reply
EncodeAction(d, reply) ==
    IF ~GetDecodeFormat(d).ok \/ ~GetInterRepr(d).ok
    THEN Failed(ErrUnreachable, NoRequest, NoReply)
    ELSE LET req == [fn |-> "encode", text |-> SourceText(d, "encode"),
                     cfg |-> EncodeConfig(d)]
         IN  IF reply.ok
             THEN Succeeded(ValueResult(reply.text), req, reply)
             ELSE Failed(ErrCodec, req, reply)

\* () => ({})
SwitchAction == Succeeded(EmptyResult, NoRequest, NoReply)

-----------------------------------------------------------------------------
(* The wired application: main() *)

NoCall ==
    [old |-> Null, new |-> Null, act |-> "none", pre |-> Null,
     verdict |-> "none", tick |-> 0]

\* no configuration reader has been called
NoRead == [group |-> "none", ok |-> FALSE, value |-> ""]

\* after main(): new StateMaintainer(..., "encoded"), decoded.exit(),
\* encoded.enter({value: ""})
Init ==
    /\ state = "encoded"
    /\ flights = <<>>
    /\ last = NoCall
    /\ dom = Enter(Exit(HtmlDom, "decoded"), "encoded", ValueResult(<<>>))
    /\ pcMain = "ready"
    /\ read = NoRead

\* click on a go_to_decoded button
GoToDecoded ==
    /\ Idle
    /\ SwitchStateCall("switch", "encoded", "decoded")
    /\ UNCHANGED <<dom, aux>>

\* click on a go_to_encoded button
GoToEncoded ==
    /\ Idle
    /\ SwitchStateCall("switch", "decoded", "encoded")
    /\ UNCHANGED <<dom, aux>>

\* decode(): click on cv_to_decoded, or Ctrl+Enter in the encoded textarea
Decode ==
    /\ Idle
    /\ SwitchStateCall("decode", "encoded", "decoded")
    /\ UNCHANGED <<dom, aux>>

\* encode(): click on cv_to_encoded, or Ctrl+Enter in the decoded textarea
Encode ==
    /\ Idle
    /\ SwitchStateCall("encode", "decoded", "encoded")
    /\ UNCHANGED <<dom, aux>>

\* the action of flight i runs: a plain switch, or a conversion that asks the
\* codec and shows the error it catches on its own pane
RunAction(i) ==
    /\ flights[i].pc = "action"
    /\ flights[i].act \in {"switch", "decode", "encode"}
    /\ \E reply \in CodecReplies :
        LET act == flights[i].act
            outcome == CASE act = "switch" -> SwitchAction
                         [] act = "decode" -> DecodeAction(dom, reply)
                         [] act = "encode" -> EncodeAction(dom, reply)
        IN  /\ ActionSettle(i, outcome)
            /\ dom' = IF outcome.ok THEN dom
                      ELSE ShowError(dom, SourcePane(act), outcome.error)
    /\ UNCHANGED aux

\* the exit hook called for flight i runs
ExitStep(i) ==
    /\ ExitReturn(i, FALSE)
    /\ dom' = Exit(dom, flights[i].hooks[Len(flights[i].hooks)].name)
    /\ UNCHANGED aux

\* the enter hook called for flight i runs
EnterStep(i) ==
    /\ flights[i].pc = "enter"
    /\ LET call == flights[i].hooks[Len(flights[i].hooks)] IN
        /\ EnterReturn(i, EnterThrows(call.arg))
        /\ dom' = IF EnterThrows(call.arg) THEN dom
                  ELSE Enter(dom, call.name, call.arg)
    /\ UNCHANGED aux

\* a user input leaves the machine alone; the records of completed calls end
Forget ==
    /\ flights' = Pending(flights)
    /\ last' = [NoCall EXCEPT !.tick = last.tick]
    /\ UNCHANGED <<state, aux>>

\* the user edits the textarea of a visible pane
TypeText(p, t) ==
    /\ Idle
    /\ ~dom.hidden[p]
    /\ dom' = [dom EXCEPT !.contents[p] = t]
    /\ Forget

\* the user picks a radio input
SelectRadio(g, v) ==
    /\ Idle
    /\ dom' = [dom EXCEPT !.checked[g] = {v}]
    /\ Forget

Next ==
    \/ GoToDecoded
    \/ GoToEncoded
    \/ Decode
    \/ Encode
    \/ \E i \in DOMAIN flights : RunAction(i)
    \/ \E i \in DOMAIN flights : ExitStep(i)
    \/ \E i \in DOMAIN flights : EnterStep(i)
    \/ \E p \in Names, t \in Texts : TypeText(p, t)
    \/ \E g \in Groups : \E v \in RadioValues[g] : SelectRadio(g, v)

Spec == Init /\ [][Next]_vars

-----------------------------------------------------------------------------
(* The wired application on a document whose radio groups are in any state. *)
(* The radios stay as found and the textareas hold what the codec returned.  *)

\* a radio value outside every domain the readers accept
Foreign == "other"

\* the states a script or a stale page can leave the radio groups in: none,
\* one or several inputs checked, values in or out of the domain
CheckedSets(g) == SUBSET (RadioValues[g] \cup {Foreign})

InitCfg ==
    /\ state = "encoded"
    /\ flights = <<>>
    /\ last = NoCall
    /\ \E c \in [Groups -> SUBSET (UNION {RadioValues[g] : g \in Groups} \cup {Foreign})] :
        /\ \A g \in Groups : c[g] \in CheckedSets(g)
        /\ dom = [Enter(Exit(HtmlDom, "decoded"), "encoded", ValueResult(<<>>))
                    EXCEPT !.checked = c]
    /\ pcMain = "ready"
    /\ read = NoRead

NextCfg ==
    \/ GoToDecoded
    \/ GoToEncoded
    \/ Decode
    \/ Encode
    \/ \E i \in DOMAIN flights : RunAction(i)
    \/ \E i \in DOMAIN flights : ExitStep(i)
    \/ \E i \in DOMAIN flights : EnterStep(i)

SpecCfg == InitCfg /\ [][NextCfg]_vars

-----------------------------------------------------------------------------
(* The wired application with calls that the guard of switchState refuses *)

\* a switchState call, made at any time, that the guard answers by throwing;
\* one of its names is any value, the other a name the handlers use
RefusedCall(oldState, newState) ==
    /\ Verdict(state, oldState, newState) # "accepted"
    /\ SwitchStateCall("probe", oldState, newState)
    /\ UNCHANGED <<dom, aux>>

NextRefused ==
    \/ NextCfg
    \/ \E a \in ArgNames : RefusedCall(a, "decoded")
    \/ \E a \in ArgNames : RefusedCall("encoded", a)

SpecRefused == Init /\ [][NextRefused]_vars

-----------------------------------------------------------------------------
(* The configuration readers called on a document in any radio state *)

\* a call of getDecodeFormat(), getDecodeStyle() or getInterRepr()
ReadSelection(g) ==
    /\ LET r == CASE g = "decode_format" -> GetDecodeFormat(dom)
                   [] g = "decode_style" -> GetDecodeStyle(dom)
                   [] g = "inter_repr" -> GetInterRepr(dom)
       IN read' = [group |-> g, ok |-> r.ok, value |-> r.value]
    /\ UNCHANGED <<state, flights, last, dom, pcMain>>

NextRead == \E g \in Groups : ReadSelection(g)

SpecRead == InitCfg /\ [][NextRead]_vars

-----------------------------------------------------------------------------
(* A StateMaintainer under an arbitrary caller *)

\* what an action handed to switchState may produce
ProbeOutcomes ==
    {Succeeded(r, NoRequest, NoReply) : r \in {EmptyResult, ValueResult(<<"x">>)}}
        \cup {Failed(ErrAction, NoRequest, NoReply)}

\* new StateMaintainer(states, startState) with startState a key of states
InitSM ==
    /\ state \in Names
    /\ flights = <<>>
    /\ last = NoCall
    /\ dom = HtmlDom
    /\ pcMain = "ready"
    /\ read = NoRead

\* any caller, at any time: from an event, from inside an action or a hook
Call(oldState, newState) ==
    /\ SwitchStateCall("probe", oldState, newState)
    /\ UNCHANGED <<dom, aux>>

ProbeAction(i, outcome) ==
    /\ flights[i].act = "probe"
    /\ ActionSettle(i, outcome)
    /\ UNCHANGED <<dom, aux>>

ProbeExit(i, threw) ==
    /\ ExitReturn(i, threw)
    /\ UNCHANGED <<dom, aux>>

ProbeEnter(i, threw) ==
    /\ EnterReturn(i, threw)
    /\ UNCHANGED <<dom, aux>>

NextSM ==
    \/ \E o \in ArgNames, n \in ArgNames : Call(o, n)
    \/ \E i \in DOMAIN flights : \E outcome \in ProbeOutcomes : ProbeAction(i, outcome)
    \/ \E i \in DOMAIN flights : \E threw \in BOOLEAN : ProbeExit(i, threw)
    \/ \E i \in DOMAIN flights : \E threw \in BOOLEAN : ProbeEnter(i, threw)

SpecSM == InitSM /\ [][NextSM]_vars

\* before new StateMaintainer(states, startState): the field is undefined
InitNew ==
    /\ state = Undef
    /\ flights = <<>>
    /\ last = NoCall
    /\ dom = HtmlDom
    /\ pcMain = "new"
    /\ read = NoRead

\* new StateMaintainer(states, start): _checkState(start), then the field is
\* assigned; when _checkState throws there is no object
Construct(start) ==
    /\ pcMain = "new"
    /\ LET v == CheckState(start) IN
        /\ last' = [old |-> start, new |-> start, act |-> "new", pre |-> state,
                    verdict |-> IF v = "" THEN "accepted" ELSE v,
                    tick |-> 1 - last.tick]
        /\ state' = IF v = "" THEN start ELSE state
        /\ pcMain' = IF v = "" THEN "built" ELSE "failed"
    /\ UNCHANGED <<flights, dom, read>>

NextNew ==
    \/ \E start \in ArgNames : Construct(start)
    \/ (pcMain = "built" /\ NextSM)

SpecNew == InitNew /\ [][NextNew]_vars

-----------------------------------------------------------------------------
(* main() from new StateMaintainer on, then the wired application *)

HookCallStateWrites(cur, name) == name

\* the hooks of setupState close over their side only and hold no reference
\* to the StateMaintainer: called directly they leave its field as it is
HookCallState(cur, name) == cur

\* new StateMaintainer({encoded: ..., decoded: ...}, "encoded")
MainConstruct == Construct("encoded")

\* state.states.decoded.exit()
StartupExit ==
    /\ pcMain = "built"
    /\ dom' = Exit(dom, "decoded")
    /\ state' = HookCallState(state, "decoded")
    /\ pcMain' = "enter"
    /\ UNCHANGED <<flights, last, read>>

\* state.states.encoded.enter({value: ""})
StartupEnter ==
    /\ pcMain = "enter"
    /\ dom' = Enter(dom, "encoded", ValueResult(<<>>))
    /\ state' = HookCallState(state, "encoded")
    /\ pcMain' = "ready"
    /\ UNCHANGED <<flights, last, read>>

NextMain ==
    \/ MainConstruct
    \/ StartupExit
    \/ StartupEnter
    \/ (pcMain = "ready" /\ Next)

SpecMain == InitNew /\ [][NextMain]_vars

-----------------------------------------------------------------------------
(* Fairness of the state machine *)

\* the hooks are synchronous and run in the continuation of await action():
\* once the action has fulfilled they run to their end. The action itself
\* may stay pending for ever.
HooksRun ==
    /\ WF_vars(\E i \in DOMAIN flights : \E threw \in BOOLEAN : ProbeExit(i, threw))
    /\ WF_vars(\E i \in DOMAIN flights : \E threw \in BOOLEAN : ProbeEnter(i, threw))

SpecSMFair == SpecSM /\ HooksRun

-----------------------------------------------------------------------------
(* Properties of the StateMaintainer, checked under SpecSM *)

ExitCall(name) == [hook |-> "exit", name |-> name, arg |-> NoResult]

EnterCall(name, result) == [hook |-> "enter", name |-> name, arg |-> result]

KnownPair(f) == f.old \in Names /\ f.new \in Names

\* the action of flight f has failed: the flight was rejected with no result
ActionFailed(f) == f.pc = "rejected" /\ f.result = NoResult

\* a hook of flight f has failed: the flight was rejected after its action
\* had produced a result
HookFailed(f) == f.pc = "rejected" /\ f.result # NoResult

\* C1: for every pair of known names (fromState = toState included), an
\* accepted call whose action succeeds with result r calls exit(fromState)
\* and then enter(toState, r) and no other hook, keeps the state locked during
\* both, then sets the state to toState and resolves to r.
C1_ExitThenEnter ==
    \A i \in DOMAIN flights :
        LET f == flights[i] IN
        KnownPair(f) =>
            /\ f.pc = "action" => f.hooks = <<>>
            /\ f.pc = "exit" => f.hooks = <<ExitCall(f.old)>> /\ state = Null
            /\ f.pc = "enter" =>
                /\ f.hooks = <<ExitCall(f.old), EnterCall(f.new, f.result)>>
                /\ state = Null
            /\ f.pc = "resolved" =>
                /\ f.hooks = <<ExitCall(f.old), EnterCall(f.new, f.result)>>
                /\ f.result \in {EmptyResult, ValueResult(<<"x">>)}
                /\ f.ret = f.result
                /\ state = f.new

C1_Witness ==
    /\ \E i \in DOMAIN flights :
        /\ flights[i].pc = "resolved"
        /\ flights[i].old = "decoded" /\ flights[i].new = "decoded"
        /\ flights[i].ret = ValueResult(<<"x">>)
    /\ state = "decoded"

\* C2: when the action of an accepted transition fails, the completed
\* transition leaves the state equal to fromState (not toState, not locked),
\* has called no hook, and rejects with the action's own error.
C2_ActionFailureRollsBack ==
    \A i \in DOMAIN flights :
        LET f == flights[i] IN
        ActionFailed(f) =>
            /\ state = f.old
            /\ state # Null
            /\ f.hooks = <<>>
            /\ f.error = ErrAction
            /\ f.ret = NoResult

C2_Witness ==
    \E i \in DOMAIN flights :
        /\ ActionFailed(flights[i])
        /\ flights[i].old = "encoded" /\ flights[i].new = "decoded"
        /\ state = "encoded"

\* the latest call named two known states and was made while locked
CalledWhileLocked(c) ==
    c.verdict # "none" /\ c.pre = Null /\ c.old \in Names /\ c.new \in Names

\* C3: a call with known names made while a transition is in flight fails with
\* the out-of-order error, changes neither the state nor the transition in
\* flight, and that transition still ends in toState when it resolves and in
\* fromState when its action fails.
C3_RejectedWhileInFlight ==
    /\ [](CalledWhileLocked(last) => last.verdict = ErrOutOfOrder)
    /\ [][(last'.tick # last.tick /\ CalledWhileLocked(last'))
            => (state' = state /\ flights' = flights)]_vars
    /\ [](\A i \in DOMAIN flights :
            /\ flights[i].pc = "resolved" => state = flights[i].new
            /\ ActionFailed(flights[i]) => state = flights[i].old)

C3_Witness ==
    /\ CalledWhileLocked(last)
    /\ last.verdict = ErrOutOfOrder
    /\ Len(flights) = 1
    /\ flights[1].pc = "resolved"
    /\ flights[1].old = "encoded" /\ flights[1].new = "decoded"
    /\ state = "decoded"

\* C5: at most one transition is in flight, the state is the locked sentinel
\* exactly while one is (from before its action runs until after both hooks),
\* and the lock is released only by a step that completes that transition.
C5_OneFlightHoldsTheLock ==
    /\ [](Len(Pending(flights)) <= 1)
    /\ []((state = Null) <=> (Pending(flights) # <<>>))
    /\ [][(state = Null /\ state' # Null) =>
            /\ Len(flights') = Len(flights)
            /\ \E i \in DOMAIN flights :
                /\ InFlight(flights[i])
                /\ ~InFlight(flights'[i])
                /\ state' \in {flights[i].old, flights[i].new}]_vars
    /\ [][(state # Null /\ state' = Null) =>
            /\ last'.tick # last.tick
            /\ last'.verdict = "accepted"
            /\ flights' = <<NewFlight(last'.act, last'.old, last'.new)>>]_vars

\* a call made from inside the enter hook of the transition in flight is refused
C5_Witness ==
    /\ state = Null
    /\ Len(flights) = 1
    /\ flights[1].pc = "enter"
    /\ CalledWhileLocked(last)
    /\ last.old = flights[1].old
    /\ last.verdict = ErrOutOfOrder

\* C6 as stated: a hook failing after a successful action leaves the state locked.
C6_HookFailureLeavesLocked ==
    \A i \in DOMAIN flights :
        HookFailed(flights[i]) => state = Null

\* C6, amended: when an exit or enter hook fails during a transition whose
\* action has succeeded, the state is rolled back to fromState: it is neither
\* left locked nor advanced to toState.
C6_HookFailureRollsBack ==
    \A i \in DOMAIN flights :
        LET f == flights[i] IN
        HookFailed(f) =>
            /\ state = f.old
            /\ state # Null
            /\ f.old # f.new => state # f.new
            /\ f.ret = NoResult

\* the enter hook has thrown after the exit hook had run
C6_Witness ==
    \E i \in DOMAIN flights :
        /\ HookFailed(flights[i])
        /\ flights[i].error = ErrHook
        /\ Len(flights[i].hooks) = 2
        /\ flights[i].old = "encoded" /\ flights[i].new = "decoded"
        /\ state = "encoded"

\* C7: a call with known names fails with the out-of-order error whenever the
\* current state is not fromState, and is accepted whenever it is.
C7_GuardComparesWithFromState ==
    (last.verdict # "none" /\ last.old \in Names /\ last.new \in Names) =>
        /\ last.pre # last.old => last.verdict = ErrOutOfOrder
        /\ last.pre = last.old => last.verdict = "accepted"

\* encoded -> decoded asked for while the state is decoded
C7_Witness ==
    /\ last.old = "encoded" /\ last.new = "decoded"
    /\ last.pre = "decoded"
    /\ last.verdict = ErrOutOfOrder
    /\ state = "decoded"

\* C8: a call fails with the invalid-state error when fromState or toState is
\* not a key of the states mapping, whatever the current state is.
C8_UnknownNameIsInvalid ==
    (last.verdict # "none" /\ (last.old \notin Names \/ last.new \notin Names)) =>
        last.verdict \in {ErrNull, ErrUndefinedState}

-----------------------------------------------------------------------------
(* Properties of the wired application, checked under Spec *)

Other(name) == IF name = "encoded" THEN "decoded" ELSE "encoded"

\* C4: whenever the machine is not locked, the pane named by the current
\* state is visible and the elements of every other state are hidden.
C4_OnePaneVisible ==
    state # Null =>
        /\ state \in Names
        /\ ~dom.hidden[state]
        /\ \A n \in Names \ {state} : dom.hidden[n]

\* after a failed encode, a refused switch and a refused decode
C4_Witness ==
    /\ state = "decoded"
    /\ ~dom.hidden["decoded"]
    /\ dom.error["decoded"] = ErrCodec
    /\ last.verdict = ErrOutOfOrder
    /\ last.act = "decode"

Conversion(f) == f.act \in {"decode", "encode"}

\* the pane a conversion reads, by the handlers of main()
ReadPane(f) == IF f.act = "decode" THEN "encoded" ELSE "decoded"

\* the codec was asked and threw
CodecFailed(f) == Conversion(f) /\ f.reply.called /\ ~f.reply.ok

\* C9: when the codec fails a decode (resp. encode), the error is shown on the
\* encoded (resp. decoded) pane's error surface and re-raised; the completed
\* transition leaves the state at the source state with the source pane
\* visible, and the destination pane is not shown and keeps its content.
C9_CodecFailureStaysOnSource ==
    /\ [](\A i \in DOMAIN flights :
            LET f == flights[i] IN
            CodecFailed(f) =>
                /\ f.pc = "rejected"
                /\ f.error = ErrCodec
                /\ dom.error[ReadPane(f)] = ErrCodec
                /\ state = ReadPane(f)
                /\ ~dom.hidden[ReadPane(f)]
                /\ dom.hidden[Other(ReadPane(f))]
                /\ f.hooks = <<>>)
    /\ [](\A i \in DOMAIN flights :
            (Conversion(flights[i]) /\ flights[i].pc = "action") =>
                dom.hidden[Other(ReadPane(flights[i]))])
    /\ [][\A i \in DOMAIN flights :
            (i \in DOMAIN flights' /\ flights[i].pc = "action"
                /\ CodecFailed(flights'[i])) =>
                    /\ dom'.contents = dom.contents
                    /\ dom'.hidden = dom.hidden
                    /\ dom'.error[Other(ReadPane(flights[i]))]
                         = dom.error[Other(ReadPane(flights[i]))]]_vars

C9_Witness ==
    /\ Len(flights) = 1
    /\ flights[1].act = "encode"
    /\ CodecFailed(flights[1])
    /\ state = "decoded"
    /\ dom.error["decoded"] = ErrCodec
    /\ dom.contents["encoded"] = <<"x">>
    /\ dom.hidden["encoded"]

\* the one checked value of a radio group
Selected(g) == CHOOSE v \in dom.checked[g] : TRUE

\* the request a conversion owes the codec, from the document as it stands
OwedRequest(f) ==
    IF f.act = "decode"
    THEN [fn |-> "decode", text |-> Trim(dom.contents["encoded"]),
          cfg |-> [decodeFormat |-> Selected("decode_format"),
                   decodeStyle |-> Selected("decode_style"),
                   interRepr |-> Selected("inter_repr")]]
    ELSE [fn |-> "encode", text |-> Trim(dom.contents["decoded"]),
          cfg |-> [decodeFormat |-> Selected("decode_format"),
                   interRepr |-> Selected("inter_repr")]]

\* C10: a successful decode started in encoded ends in decoded with the
\* decoded pane visible and holding the codec's output for (trimmed encoded
\* content, {decodeFormat, decodeStyle, interRepr} as selected), the encoded
\* pane hidden with its content unchanged; symmetrically for encode with
\* {decodeFormat, interRepr}, the decoded pane's content unchanged.
C10_ConversionShowsCodecOutput ==
    /\ [](\A i \in DOMAIN flights :
            LET f == flights[i] IN
            (Conversion(f) /\ f.pc \in {"exit", "enter", "resolved"}) =>
                /\ f.req = OwedRequest(f)
                /\ f.reply.called /\ f.reply.ok
                /\ f.result = ValueResult(f.reply.text)
                /\ f.pc = "resolved" =>
                    /\ state = Other(ReadPane(f))
                    /\ ~dom.hidden[Other(ReadPane(f))]
                    /\ dom.hidden[ReadPane(f)]
                    /\ dom.contents[Other(ReadPane(f))] = f.reply.text)
    /\ [][\A i \in DOMAIN flights :
            (Conversion(flights[i]) /\ InFlight(flights[i])) =>
                dom'.contents[ReadPane(flights[i])]
                    = dom.contents[ReadPane(flights[i])]]_vars

\* trimming and a non-default style both mattered
C10_Witness ==
    /\ Len(flights) = 1
    /\ flights[1].act = "decode"
    /\ flights[1].pc = "resolved"
    /\ dom.contents["encoded"] = <<" ", "x">>
    /\ flights[1].req.text = <<"x">>
    /\ flights[1].req.cfg.decodeStyle = "compact"
    /\ dom.contents["decoded"] = <<"x", " ">>
    /\ state = "decoded"

-----------------------------------------------------------------------------
(* Properties of the conversions on any document, checked under SpecCfg *)

\* exactly one input of group g is checked and its value is in g's domain
WellFormed(g) == \E v \in RadioValues[g] : dom.checked[g] = {v}

\* the groups a conversion reads, by decode() and encode()
GroupsRead(f) ==
    IF f.act = "decode" THEN {"decode_format", "decode_style", "inter_repr"}
    ELSE {"decode_format", "inter_repr"}

ConfigBroken(f) == \E g \in GroupsRead(f) : ~WellFormed(g)

\* C11: when a group a conversion reads has no, several or a foreign checked
\* input, the conversion fails with the reader's error, which is shown on the
\* source pane's error surface and re-raised; the codec gets no request, no
\* hook runs and the state is back at the source state with its pane visible.
C11_ConfigErrorAborts ==
    \A i \in DOMAIN flights :
        LET f == flights[i] IN
        (Conversion(f) /\ f.pc # "action") =>
            /\ ConfigBroken(f) =>
                /\ f.pc = "rejected"
                /\ f.error = ErrUnreachable
                /\ f.req = NoRequest
                /\ ~f.reply.called
                /\ f.hooks = <<>>
                /\ dom.error[ReadPane(f)] = ErrUnreachable
                /\ state = ReadPane(f)
                /\ ~dom.hidden[ReadPane(f)]
                /\ dom.hidden[Other(ReadPane(f))]
            /\ ~ConfigBroken(f) => (f.error # ErrUnreachable /\ f.reply.called)

\* an encode refused because two inter_repr inputs are checked, after a
\* decode went through on the same document
C11_Witness ==
    /\ Len(flights) = 1
    /\ flights[1].act = "encode"
    /\ flights[1].pc = "rejected"
    /\ flights[1].error = ErrUnreachable
    /\ dom.checked["inter_repr"] = {"struct", "map_tree"}
    /\ dom.checked["decode_format"] = {"json"}
    /\ dom.error["decoded"] = ErrUnreachable
    /\ state = "decoded"

-----------------------------------------------------------------------------
(* Properties of the hooks and the plain switches, checked under Spec *)

\* flight i is a plain switch (go_to_decoded, go_to_encoded) on its way
SwitchInFlight(i) == flights[i].act = "switch" /\ InFlight(flights[i])

\* C12: a plain switch leaves the content of both panes as it is at every one
\* of its steps (action, exit hook, enter hook), and once it has resolved the
\* current state is its toState, the toState pane is visible and the fromState
\* pane hidden; so switching away and back gives a pane its content back.
C12_SwitchKeepsContents ==
    /\ [][\A i \in DOMAIN flights :
            SwitchInFlight(i) => dom'.contents = dom.contents]_vars
    /\ [](\A i \in DOMAIN flights :
            (flights[i].act = "switch" /\ flights[i].pc = "resolved") =>
                /\ state = flights[i].new
                /\ ~dom.hidden[flights[i].new]
                /\ dom.hidden[flights[i].old])

\* back on the encoded pane by a plain switch, both panes holding text
C12_Witness ==
    /\ Len(flights) = 1
    /\ flights[1].act = "switch"
    /\ flights[1].pc = "resolved"
    /\ flights[1].new = "encoded"
    /\ state = "encoded"
    /\ dom.contents["decoded"] = <<"x">>
    /\ dom.contents["encoded"] = <<"x", " ">>

\* the enter hook of flight i returns in this step
EnterReturns(i) ==
    /\ i \in DOMAIN flights /\ i \in DOMAIN flights'
    /\ flights[i].pc = "enter"
    /\ flights'[i].pc = "resolved"

\* C13: the enter hook of a pane empties that pane's error surface, puts
\* result.value into that pane's content exactly when result has a value,
\* shows that pane, and leaves the other pane's content, error surface and
\* visibility (and the radio inputs) as they were.
C13_EnterTouchesItsPaneOnly ==
    [][\A i \in DOMAIN flights :
        EnterReturns(i) =>
            LET n == flights[i].new
                o == Other(flights[i].new)
                result == flights[i].result
            IN  /\ dom'.error[n] = ""
                /\ dom'.contents[n] =
                    IF result.has THEN result.value ELSE dom.contents[n]
                /\ ~dom'.hidden[n]
                /\ dom'.contents[o] = dom.contents[o]
                /\ dom'.error[o] = dom.error[o]
                /\ dom'.hidden[o] = dom.hidden[o]
                /\ dom'.checked = dom.checked]_vars

\* a decode has entered the decoded pane with the codec's text while the
\* encoded pane still shows the error of an earlier failed attempt
C13_Witness ==
    /\ Len(flights) = 1
    /\ flights[1].act = "decode"
    /\ flights[1].pc = "resolved"
    /\ flights[1].result = ValueResult(<<"x">>)
    /\ dom.contents["decoded"] = <<"x">>
    /\ dom.error["decoded"] = ""
    /\ dom.error["encoded"] = ErrCodec
    /\ ~dom.hidden["decoded"]

-----------------------------------------------------------------------------
(* The lock over time, checked under SpecSMFair *)

ActionPending == \E i \in DOMAIN flights : flights[i].pc = "action"

\* the action of some flight has fulfilled and its hooks are running
ActionFulfilled == \E i \in DOMAIN flights : flights[i].pc \in {"exit", "enter"}

\* C14: while the action of an accepted call has not completed the state is
\* the lock; a failing action gives the state its fromState back in the step
\* in which it fails, and after an action that fulfilled the state eventually
\* stops being the lock.
C14_LockedWhileActionRuns ==
    /\ [](ActionPending => state = Null)
    /\ [][\A i \in DOMAIN flights :
            (flights[i].pc = "action" /\ flights'[i].pc = "rejected") =>
                state' = flights[i].old]_vars
    /\ ActionFulfilled ~> (state # Null)

\* the machine is unlocked at toState after a call was refused during the flight
C14_Witness ==
    /\ Len(flights) = 1
    /\ flights[1].pc = "resolved"
    /\ flights[1].old = "encoded"
    /\ flights[1].new = "decoded"
    /\ state = "decoded"
    /\ last.pre = Null
    /\ last.verdict = ErrOutOfOrder

-----------------------------------------------------------------------------
(* The configuration readers, checked under SpecRead *)

\* the values a group allows
Allowed(g) ==
    CASE g = "decode_format" -> {"ron", "json"}
      [] g = "decode_style" -> {"pretty", "compact"}
      [] g = "inter_repr" -> {"struct", "map_tree"}

\* C15: a reader returns a value only when exactly one input of its group is
\* checked and that input's value is allowed for the group, and then it
\* returns that value; with no or several checked inputs, or a checked value
\* outside the allowed ones, it throws and returns nothing.
C15_ReadSelection ==
    read.group # "none" =>
        LET c == dom.checked[read.group] IN
        /\ read.ok <=> (Cardinality(c) = 1 /\ c \subseteq Allowed(read.group))
        /\ read.ok => c = {read.value}
        /\ ~read.ok => read.value = ""

\* getInterRepr() has thrown on a single checked input of a foreign value
C15_Witness ==
    /\ read.group = "inter_repr"
    /\ ~read.ok
    /\ dom.checked["inter_repr"] = {Foreign}
    /\ dom.checked["decode_format"] = {"ron", "json"}
    /\ dom.checked["decode_style"] = {}

-----------------------------------------------------------------------------
(* The constructor, checked under SpecNew *)

\* C16 as stated: constructing with a start name that is no key of the states
\* mapping fails with the invalid-state error, and a construction that
\* succeeds leaves the current state at the start name.
C16_UnknownStartIsInvalid ==
    last.act = "new" =>
        /\ last.old \notin Names => last.verdict \in {ErrNull, ErrUndefinedState}
        /\ last.verdict = "accepted" => (state = last.old /\ state # Null)

-----------------------------------------------------------------------------
(* Who writes the current state, checked under SpecMain *)

\* flight i goes from pc p to pc q in this step
Moves(i, p, q) ==
    /\ i \in DOMAIN flights'
    /\ flights[i].pc = p
    /\ flights'[i].pc = q

\* the step is switchState accepting a call (this.state = null)
LockWrite ==
    /\ last'.tick # last.tick
    /\ last'.act # "new"
    /\ last'.verdict = "accepted"
    /\ state' = Null

\* the step ends a switchState call (this.state = newState or = oldState)
SettleWrite ==
    \E i \in DOMAIN flights :
        \/ Moves(i, "enter", "resolved") /\ state' = flights[i].new
        \/ (InFlight(flights[i]) /\ Moves(i, flights[i].pc, "rejected")
                /\ state' = flights[i].old)

\* C17: after construction the current state changes only in a step of
\* switchState (locking, this.state = newState, or the catch's
\* this.state = oldState). The hook calls main() makes at startup leave it
\* alone; so does an action that returns (readers and codec), so does an exit
\* hook; an action that fails (after showing its error) and an enter hook
\* leave in it exactly what switchState writes.
C17_OnlySwitchStateWrites ==
    [][/\ pcMain \in {"built", "enter"} => state' = state
       /\ \A i \in DOMAIN flights :
            /\ Moves(i, "action", "exit") => state' = state
            /\ Moves(i, "exit", "enter") => state' = state
            /\ Moves(i, "action", "rejected") => state' = flights[i].old
            /\ Moves(i, "enter", "resolved") => state' = flights[i].new
       /\ (pcMain # "new" /\ state' # state) => (LockWrite \/ SettleWrite)]_vars

\* after startup, an encode has shown a codec error on the decoded pane and
\* the state is back at decoded, the encoded pane still holding its own error
C17_Witness ==
    /\ pcMain = "ready"
    /\ Len(flights) = 1
    /\ flights[1].act = "encode"
    /\ flights[1].pc = "rejected"
    /\ flights[1].reply.called
    /\ state = "decoded"
    /\ dom.error["decoded"] = ErrCodec
    /\ dom.error["encoded"] = ErrCodec

-----------------------------------------------------------------------------
(* The configuration of a request, checked under Spec *)

\* the action of conversion flight i runs in this step
ConversionRuns(i) ==
    /\ Conversion(flights[i])
    /\ flights[i].pc = "action"
    /\ i \in DOMAIN flights'
    /\ flights'[i].pc # "action"

\* C18: each time the action of a conversion runs, the request it gives the
\* codec carries the selections of the radio inputs as they are in that very
\* step, whatever they were at startup or at an earlier attempt; this holds
\* for a request the codec then refuses as well.
C18_ConfigReadAfresh ==
    [][\A i \in DOMAIN flights :
        ConversionRuns(i) =>
            /\ flights'[i].reply.called
            /\ flights'[i].req.fn = flights[i].act
            /\ flights'[i].req.cfg = OwedRequest(flights[i]).cfg]_vars

\* a decode refused by the codec went out with selections that all differ
\* from those of the page as loaded, after the decoded pane had been visited
\* and left again
C18_Witness ==
    /\ Len(flights) = 1
    /\ flights[1].act = "decode"
    /\ flights[1].pc = "rejected"
    /\ flights[1].error = ErrCodec
    /\ flights[1].req.cfg = [decodeFormat |-> "json", decodeStyle |-> "compact",
                             interRepr |-> "map_tree"]
    /\ dom.contents["decoded"] = <<"x", "x">>
    /\ state = "encoded"

-----------------------------------------------------------------------------
(* Refused calls, checked under SpecRefused *)

\* the step is a switchState call that the guard refuses, or has to refuse
\* because the current state is not its fromState
RefusedStep ==
    /\ last'.tick # last.tick
    /\ last'.verdict # "accepted" \/ last'.pre # last'.old

\* C19: a switchState call that is refused, for an unknown name or for being
\* out of order, changes nothing: the current state, the document (visibility,
\* contents, error surfaces) and every transition record (its action, codec
\* request and reply, hooks called) are as before the call.
C19_RefusedCallHasNoEffect ==
    [][RefusedStep => (state' = state /\ dom' = dom /\ flights' = flights)]_vars

\* a call with an unknown toState was refused while a decode waited for its
\* exit hook
C19_Witness ==
    /\ last.act = "probe"
    /\ last.old = "encoded"
    /\ last.new = "bogus"
    /\ last.verdict = ErrUndefinedState
    /\ Len(flights) = 1
    /\ flights[1].act = "decode"
    /\ flights[1].pc = "exit"
    /\ flights[1].hooks = <<ExitCall("encoded")>>
    /\ state = Null
    /\ dom.hidden["decoded"]

-----------------------------------------------------------------------------
(* The lock value as an argument, checked under SpecSM *)

\* the call recorded in c names null as fromState or toState
NamesNull(c) == c.verdict # "none" /\ (c.old = Null \/ c.new = Null)

\* C20: a switchState call whose fromState or toState is null is refused,
\* whatever the current state, the locked one included; it changes neither
\* the state nor any transition, so no transition ever has null as fromState
\* or toState and none ends by writing null as its target.
C20_NullIsNoStateName ==
    /\ [](NamesNull(last) => last.verdict \in {ErrNull, ErrUndefinedState})
    /\ [][(last'.tick # last.tick /\ NamesNull(last'))
            => (state' = state /\ flights' = flights)]_vars
    /\ [](\A i \in DOMAIN flights :
            flights[i].old # Null /\ flights[i].new # Null)
    /\ [][\A i \in DOMAIN flights :
            Moves(i, "enter", "resolved") => state' # Null]_vars

\* switchState(action, null, "encoded") was refused while the machine was
\* locked by a transition whose action had not settled
C20_Witness ==
    /\ last.old = Null
    /\ last.new = "encoded"
    /\ last.pre = Null
    /\ last.verdict = ErrNull
    /\ state = Null
    /\ Len(flights) = 1
    /\ flights[1].pc = "action"

-----------------------------------------------------------------------------
(* The panes while an action has not completed, checked under Spec *)

\* the hooks of flight i are running: its action has fulfilled
HooksRunning(i) ==
    flights[i].pc \in {"exit", "enter"} /\ flights[i].result # NoResult

\* C21: while the action of a transition in flight has not completed, the
\* fromState pane is visible and the toState pane hidden, and the step taken
\* from there (the action fulfilling or failing) changes no pane's visibility
\* or content and leaves the toState pane's error surface as it is;
\* visibility changes only in a hook step after the action has fulfilled, and
\* the toState pane's content only in the enter hook.
C21_PanesKeptWhileActionRuns ==
    /\ [](\A i \in DOMAIN flights :
            flights[i].pc = "action" =>
                /\ state = Null
                /\ ~dom.hidden[flights[i].old]
                /\ flights[i].old # flights[i].new => dom.hidden[flights[i].new])
    /\ [][\A i \in DOMAIN flights :
            flights[i].pc = "action" =>
                /\ dom'.hidden = dom.hidden
                /\ dom'.contents = dom.contents
                /\ dom'.error[flights[i].new] = dom.error[flights[i].new]]_vars
    /\ [][dom'.hidden # dom.hidden =>
            \E i \in DOMAIN flights : HooksRunning(i)]_vars
    /\ [][\A i \in DOMAIN flights :
            (InFlight(flights[i])
                /\ dom'.contents[flights[i].new] # dom.contents[flights[i].new])
            => (HooksRunning(i) /\ flights[i].pc = "enter")]_vars

\* an encode is in flight, its action not yet run: the decoded pane is shown,
\* the encoded pane hidden with its text and the error of an earlier decode
C21_Witness ==
    /\ Len(flights) = 1
    /\ flights[1].act = "encode"
    /\ flights[1].pc = "action"
    /\ state = Null
    /\ ~dom.hidden["decoded"]
    /\ dom.hidden["encoded"]
    /\ dom.contents["encoded"] = <<"x">>
    /\ dom.error["encoded"] = ErrCodec

====
